---- MODULE Spec2Model ----
(***************************************************************************)
(* Session / role-based access control core of the admin console.          *)
(*                                                                         *)
(* AuthProvider (src/src/contexts/AuthContext.tsx) keeps three pieces of   *)
(* React state, user, profile and isLoading, and updates them from async   *)
(* functions.  JavaScript runs each function up to its next `await` as one *)
(* uninterrupted segment, and React publishes the setState calls of one    *)
(* segment together; every action below is one such segment.  The Identity *)
(* Store and the Profile Store are remote: what a suspended call resolves  *)
(* to is chosen by the environment.                                        *)
(***************************************************************************)
EXTENDS Naturals, Sequences, FiniteSets

VARIABLES
    user,        \* useState<User | null>: the id of the identity, or NoUser
    profile,     \* useState<UserProfile | null>
    isLoading,   \* useState(true)
    initPc,      \* where getInitialSession() is suspended
    handlers,    \* onAuthStateChange callbacks in flight, in arrival order
    latest,      \* TRUE iff the newest auth event's callback is still in flight
    refreshPc,   \* the delayed refreshProfile() of handleSave
    signOuts,    \* signOut() calls suspended on the remote sign-out
    asked,       \* the last hasPermission(permission) call and its result
    view,        \* the last guard a consumer rendered, and what it returned
    failures,    \* the failing collaborator calls looked at, and where each went
    login        \* LoginPage: where handleLogin() is, and what it has shown

vars == <<user, profile, isLoading, initPc, handlers, latest, refreshPc,
          signOuts, asked, view, failures, login>>

----------------------------------------------------------------------------
(* Bounds *)

\* auth-event callbacks that may be suspended at the same time
MaxInFlight == 2
\* signOut() calls that may be suspended at the same time
MaxSignOuts == 1
\* entries a permissions mapping may hold in the capability check
MaxOverrides == 2
\* failing collaborator calls followed to where they end
MaxFailures == 2

----------------------------------------------------------------------------
(* Data *)

Ids == {"A", "B"}
NoUser == "null"

Roles == {"user", "admin", "moderator", "editor"}

\* the names of the static table, and one name no role is given
Capabilities == {"moderate_content", "manage_comments", "view_analytics",
                 "create_content", "edit_content", "manage_posts",
                 "view_content", "create_comments", "delete_users"}

\* what permissions[name] may hold: Record<string, any>
PermValues == {"undefined", "true", "false", "other"}

NoEntries == [c \in Capabilities |-> "undefined"]
NullPermissions == [isNull |-> TRUE, entries |-> NoEntries]
PermissionsOf(entries) == [isNull |-> FALSE, entries |-> entries]
Override(name, value) == [NoEntries EXCEPT ![name] = value]

NoProfile == [isNull |-> TRUE]

UserProfile(id, role, active, blocked, permissions) ==
    [isNull |-> FALSE, id |-> id, role |-> role, is_active |-> active,
     blocked |-> blocked, permissions |-> permissions]

\* the rows the Profile Store may hold for userId while the session runs:
\* the session code reads blocked and is_active and nothing else of a row
StoreRoles == {"admin", "user"}
StoreProfiles(userId) ==
    {UserProfile(userId, r, a, b, NullPermissions) :
        r \in StoreRoles, a \in BOOLEAN, b \in BOOLEAN}

----------------------------------------------------------------------------
(* Collaborators *)

\* fetchUserProfile(userId): the row with that id, or null when the lookup
\* returns an error, finds no row or throws
fetchUserProfile(userId) ==
    IF userId = NoUser THEN {} ELSE StoreProfiles(userId) \cup {NoProfile}

\* everything a fetch may resolve to, whatever the id
FetchResults == UNION {fetchUserProfile(u) : u \in Ids}

\* the check both the session probe and the event callback make on a row
NotActiveOrBlocked(userProfile) ==
    userProfile.blocked \/ userProfile.is_active = FALSE

\* how the awaited supabase.auth.signOut() may end
SignOutOutcomes == {"ok", "error", "throw"}

----------------------------------------------------------------------------
(* Derived values of the context *)

isAuthenticated == user # NoUser /\ profile # NoProfile
isAdmin == profile # NoProfile /\ profile.role = "admin"
\* isModerator read as moderator-or-above
isModerator_OrAbove ==
    profile # NoProfile /\ profile.role \in {"admin", "moderator"}
isModerator == profile # NoProfile /\ profile.role = "moderator"
isEditor == profile # NoProfile /\ profile.role = "editor"

rolePermissions(role) ==
    CASE role = "moderator" ->
            {"moderate_content", "manage_comments", "view_analytics"}
      [] role = "editor" -> {"create_content", "edit_content", "manage_posts"}
      [] role = "user" -> {"view_content", "create_comments"}
      [] OTHER -> {}

\* hasPermission with the permissions object consulted before the admin test
hasPermission_OverrideFirst(p, permission) ==
    IF p = NoProfile THEN FALSE
    ELSE IF ~p.permissions.isNull
         THEN p.permissions.entries[permission] = "true"
    ELSE IF p.role = "admin" THEN TRUE
    ELSE permission \in rolePermissions(p.role)

\* hasPermission with the role table consulted before the permissions object
hasPermission_TableFirst(p, permission) ==
    IF p = NoProfile THEN FALSE
    ELSE IF p.role = "admin" THEN TRUE
    ELSE IF permission \in rolePermissions(p.role) THEN TRUE
    ELSE IF ~p.permissions.isNull
         THEN p.permissions.entries[permission] = "true"
    ELSE FALSE

\* hasPermission with a missing profile treated as role user
hasPermission_NullAsUser(p, permission) ==
    IF p = NoProfile THEN permission \in rolePermissions("user")
    ELSE IF p.role = "admin" THEN TRUE
    ELSE IF ~p.permissions.isNull
         THEN p.permissions.entries[permission] = "true"
    ELSE permission \in rolePermissions(p.role)

hasPermission(p, permission) ==
    IF p = NoProfile THEN FALSE
    ELSE IF p.role = "admin" THEN TRUE
    ELSE IF ~p.permissions.isNull
         THEN p.permissions.entries[permission] = "true"
    ELSE permission \in rolePermissions(p.role)

----------------------------------------------------------------------------
(* Bookkeeping *)

Idle == [pc |-> "idle", uid |-> NoUser]
NoAnswer == [permission |-> "none", result |-> FALSE]
NoView == [guard |-> "none"]
NoRow == [isNull |-> TRUE]
\* LoginPage before any submit: handleLogin() not running, nothing shown
NoLogin == [pc |-> "idle", error |-> "null", uid |-> NoUser,
            authenticated |-> FALSE, fetched |-> FALSE, row |-> NoRow,
            failed |-> "none", signedOut |-> FALSE, navigated |-> "none"]

Remove(seq, i) == SubSeq(seq, 1, i - 1) \o SubSeq(seq, i + 1, Len(seq))

\* the callback at position i is the one of the newest auth event
IsNewest(i) == latest /\ i = Len(handlers)

Init ==
    /\ user = NoUser
    /\ profile = NoProfile
    /\ isLoading = TRUE
    /\ initPc = [pc |-> "getSession", uid |-> NoUser]
    /\ handlers = <<>>
    /\ latest = FALSE
    /\ refreshPc = Idle
    /\ signOuts = 0
    /\ asked = NoAnswer
    /\ view = NoView
    /\ failures = <<>>
    /\ login = NoLogin

----------------------------------------------------------------------------
(* getInitialSession(): the session probe of the mount effect *)

Others == <<handlers, latest, refreshPc, signOuts, asked, view, failures, login>>

\* getSession() returns an error, or throws: loading is cleared
InitSessionError ==
    /\ initPc.pc = "getSession"
    /\ isLoading' = FALSE
    /\ initPc' = [pc |-> "done", uid |-> NoUser]
    /\ UNCHANGED <<user, profile, Others>>

\* getSession() finds no session: only the finally block runs
InitNoSession ==
    /\ initPc.pc = "getSession"
    /\ isLoading' = FALSE
    /\ initPc' = [pc |-> "done", uid |-> NoUser]
    /\ UNCHANGED <<user, profile, Others>>

\* getSession() finds a session: setUser, then the profile fetch is awaited
InitSession(u) ==
    /\ initPc.pc = "getSession"
    /\ user' = u
    /\ initPc' = [pc |-> "fetch", uid |-> u]
    /\ UNCHANGED <<profile, isLoading, Others>>

\* the awaited fetchUserProfile(session.user.id) resolves to userProfile
InitFetchResolve(userProfile) ==
    /\ initPc.pc = "fetch"
    /\ userProfile \in fetchUserProfile(initPc.uid)
    /\ IF userProfile = NoProfile
       THEN /\ isLoading' = FALSE
            /\ initPc' = [pc |-> "done", uid |-> NoUser]
            /\ UNCHANGED profile
       ELSE IF NotActiveOrBlocked(userProfile)
       THEN /\ initPc' = [pc |-> "signOut", uid |-> initPc.uid]
            /\ UNCHANGED <<profile, isLoading>>
       ELSE /\ profile' = userProfile
            /\ isLoading' = FALSE
            /\ initPc' = [pc |-> "done", uid |-> NoUser]
    /\ UNCHANGED <<user, Others>>

\* InitSignOutResolve returning as the event callback does, loading untouched
InitSignOutResolve_NoFinally(outcome) ==
    /\ initPc.pc = "signOut"
    /\ outcome \in SignOutOutcomes
    /\ initPc' = [pc |-> "done", uid |-> NoUser]
    /\ UNCHANGED <<user, profile, isLoading, Others>>

\* the awaited remote sign-out of a blocked or inactive session ends: a
\* returned result reaches setIsLoading(false) and return, a throw reaches
\* the catch, and the finally block clears loading either way
InitSignOutResolve(outcome) ==
    /\ initPc.pc = "signOut"
    /\ outcome \in SignOutOutcomes
    /\ isLoading' = FALSE
    /\ initPc' = [pc |-> "done", uid |-> NoUser]
    /\ UNCHANGED <<user, profile, Others>>

----------------------------------------------------------------------------
(* The onAuthStateChange callback *)

Tasks == <<initPc, refreshPc, signOuts, asked, view, failures, login>>

\* OnAuthStateChange with loading cleared before the profile fetch is awaited
OnAuthStateChange_ClearsEarly(sessionUser) ==
    /\ sessionUser \in Ids \cup {NoUser}
    /\ isLoading' = FALSE
    /\ IF sessionUser # NoUser
       THEN /\ Len(handlers) < MaxInFlight
            /\ user' = sessionUser
            /\ handlers' = Append(handlers, [pc |-> "fetch", uid |-> sessionUser])
            /\ latest' = TRUE
            /\ UNCHANGED profile
       ELSE /\ user' = NoUser
            /\ profile' = NoProfile
            /\ latest' = FALSE
            /\ UNCHANGED handlers
    /\ UNCHANGED Tasks

\* an auth event arrives carrying sessionUser (NoUser: no session)
OnAuthStateChange(sessionUser) ==
    /\ sessionUser \in Ids \cup {NoUser}
    /\ IF sessionUser # NoUser
       THEN /\ Len(handlers) < MaxInFlight
            /\ user' = sessionUser
            /\ handlers' = Append(handlers, [pc |-> "fetch", uid |-> sessionUser])
            /\ latest' = TRUE
            /\ UNCHANGED <<profile, isLoading>>
       ELSE /\ user' = NoUser
            /\ profile' = NoProfile
            /\ isLoading' = FALSE
            /\ latest' = FALSE
            /\ UNCHANGED handlers
    /\ UNCHANGED Tasks

\* the awaited fetchUserProfile of the callback at position i resolves
HandlerFetchResolve(i, userProfile) ==
    /\ i \in 1..Len(handlers)
    /\ handlers[i].pc = "fetch"
    /\ userProfile \in fetchUserProfile(handlers[i].uid)
    /\ IF userProfile = NoProfile
       THEN /\ isLoading' = FALSE
            /\ handlers' = Remove(handlers, i)
            /\ latest' = (latest /\ ~IsNewest(i))
            /\ UNCHANGED profile
       ELSE IF NotActiveOrBlocked(userProfile)
       THEN /\ handlers' = [handlers EXCEPT ![i].pc = "signOut"]
            /\ UNCHANGED <<profile, isLoading, latest>>
       ELSE /\ profile' = userProfile
            /\ isLoading' = FALSE
            /\ handlers' = Remove(handlers, i)
            /\ latest' = (latest /\ ~IsNewest(i))
    /\ UNCHANGED <<user, Tasks>>

\* the awaited remote sign-out of the callback at position i ends: the
\* callback toasts and returns; a throw is a rejection nobody handles
HandlerSignOutResolve(i, outcome) ==
    /\ i \in 1..Len(handlers)
    /\ handlers[i].pc = "signOut"
    /\ outcome \in SignOutOutcomes
    /\ handlers' = Remove(handlers, i)
    /\ latest' = (latest /\ ~IsNewest(i))
    /\ UNCHANGED <<user, profile, isLoading, Tasks>>

----------------------------------------------------------------------------
(* refreshProfile(), as handleSave calls it, and signOut() *)

\* the profile page, rendered inside ProtectedRoute, saves: its closure
\* holds the user of that render, and refreshProfile() runs 500 ms later
HandleSave ==
    /\ ~isLoading /\ isAuthenticated
    /\ refreshPc.pc = "idle"
    /\ refreshPc' = [pc |-> "timer", uid |-> user]
    /\ UNCHANGED <<user, profile, isLoading, initPc, handlers, latest,
                   signOuts, asked, view, failures, login>>

\* the timer fires: refreshProfile() tests the user of its closure and
\* awaits fetchUserProfile(user.id)
RefreshProfile ==
    /\ refreshPc.pc = "timer"
    /\ refreshPc' = IF refreshPc.uid # NoUser
                    THEN [pc |-> "fetch", uid |-> refreshPc.uid]
                    ELSE Idle
    /\ UNCHANGED <<user, profile, isLoading, initPc, handlers, latest,
                   signOuts, asked, view, failures, login>>

\* the fetch resolves: setProfile(userProfile), whatever it is
RefreshFetchResolve(userProfile) ==
    /\ refreshPc.pc = "fetch"
    /\ userProfile \in fetchUserProfile(refreshPc.uid)
    /\ profile' = userProfile
    /\ refreshPc' = Idle
    /\ UNCHANGED <<user, isLoading, initPc, handlers, latest, signOuts,
                   asked, view, failures, login>>

\* signOut() is called and awaits the remote sign-out
SignOut ==
    /\ signOuts < MaxSignOuts
    /\ signOuts' = signOuts + 1
    /\ UNCHANGED <<user, profile, isLoading, initPc, handlers, latest,
                   refreshPc, asked, view, failures, login>>

\* SignOutResolve with the loading flag raised again once the call ends
SignOutResolve_ShowsLoading(outcome) ==
    /\ signOuts > 0
    /\ outcome \in SignOutOutcomes
    /\ signOuts' = signOuts - 1
    /\ isLoading' = TRUE
    /\ IF outcome = "throw"
       THEN UNCHANGED <<user, profile>>
       ELSE /\ user' = NoUser
            /\ profile' = NoProfile
    /\ UNCHANGED <<initPc, handlers, latest, refreshPc, asked, view, failures, login>>

\* the remote sign-out ends: a returned result (with or without an error
\* field) clears user and profile, a throw reaches the catch and clears
\* nothing
SignOutResolve(outcome) ==
    /\ signOuts > 0
    /\ outcome \in SignOutOutcomes
    /\ signOuts' = signOuts - 1
    /\ IF outcome = "throw"
       THEN UNCHANGED <<user, profile>>
       ELSE /\ user' = NoUser
            /\ profile' = NoProfile
    /\ UNCHANGED <<isLoading, initPc, handlers, latest, refreshPc, asked, view, failures, login>>

----------------------------------------------------------------------------
Next ==
    \/ InitSessionError
    \/ InitNoSession
    \/ \E u \in Ids : InitSession(u)
    \/ \E p \in FetchResults : InitFetchResolve(p)
    \/ \E o \in SignOutOutcomes : InitSignOutResolve(o)
    \/ \E s \in Ids \cup {NoUser} : OnAuthStateChange(s)
    \/ \E i \in 1..MaxInFlight : \E p \in FetchResults :
          HandlerFetchResolve(i, p)
    \/ \E i \in 1..MaxInFlight : \E o \in SignOutOutcomes :
          HandlerSignOutResolve(i, o)
    \/ HandleSave
    \/ RefreshProfile
    \/ \E p \in FetchResults : RefreshFetchResolve(p)
    \/ SignOut
    \/ \E o \in SignOutOutcomes : SignOutResolve(o)

Spec == Init /\ [][Next]_vars

\* every suspended call of the session probe resolves in the end
InitResolves ==
    \/ InitSessionError
    \/ InitNoSession
    \/ \E u \in Ids : InitSession(u)
    \/ \E p \in FetchResults : InitFetchResolve(p)
    \/ \E o \in SignOutOutcomes : InitSignOutResolve(o)

\* the mount effect alone: the session probe and the auth-event callbacks,
\* the only code that writes isLoading; the probe's suspended calls resolve
NextMount ==
    \/ InitSessionError
    \/ InitNoSession
    \/ \E u \in Ids : InitSession(u)
    \/ \E p \in FetchResults : InitFetchResolve(p)
    \/ \E o \in SignOutOutcomes : InitSignOutResolve(o)
    \/ \E s \in Ids \cup {NoUser} : OnAuthStateChange(s)
    \/ \E i \in 1..MaxInFlight : \E p \in FetchResults :
          HandlerFetchResolve(i, p)
    \/ \E i \in 1..MaxInFlight : \E o \in SignOutOutcomes :
          HandlerSignOutResolve(i, o)

SpecMount == Init /\ [][NextMount]_vars /\ WF_vars(InitResolves)

----------------------------------------------------------------------------
(* hasPermission as a consumer calls it, over the profiles a row may hold *)

\* permissions mappings with at most MaxOverrides entries
OverrideMaps ==
    {m \in [Capabilities -> PermValues] :
        Cardinality({c \in Capabilities : m[c] # "undefined"}) <= MaxOverrides}

\* the profiles a capability check may meet: every role, with the
\* permissions column null or holding a mapping (the empty one included)
CapProfiles ==
    {UserProfile("A", r, TRUE, FALSE, perms) :
        r \in Roles,
        perms \in {NullPermissions} \cup {PermissionsOf(m) : m \in OverrideMaps}}

\* a settled session holding profile p
InitCap ==
    /\ profile \in CapProfiles \cup {NoProfile}
    /\ user = IF profile = NoProfile THEN NoUser ELSE profile.id
    /\ isLoading = FALSE
    /\ initPc = [pc |-> "done", uid |-> NoUser]
    /\ handlers = <<>>
    /\ latest = FALSE
    /\ refreshPc = Idle
    /\ signOuts = 0
    /\ asked = NoAnswer
    /\ view = NoView
    /\ failures = <<>>
    /\ login = NoLogin

\* a consumer calls hasPermission(permission) on the current render
HasPermission(permission) ==
    /\ asked' = [permission |-> permission,
                 result |-> hasPermission(profile, permission)]
    /\ UNCHANGED <<user, profile, isLoading, initPc, handlers, latest,
                   refreshPc, signOuts, view, failures,
                   login>>

NextCap == \E permission \in Capabilities : HasPermission(permission)

SpecCap == InitCap /\ [][NextCap]_vars

----------------------------------------------------------------------------
(* The route guards *)

Undefined == "undefined"

\* profile?.role
RoleOf == IF profile = NoProfile THEN Undefined ELSE profile.role

\* what a guard returns
View(kind, from, current, required, content) ==
    [kind |-> kind, from |-> from, current |-> current, required |-> required,
     content |-> content]
LoadingView == View("loading", Undefined, Undefined, Undefined, Undefined)
\* <Navigate to="/login" state={{ from: location }} replace />
Redirect(location) == View("redirect", location, Undefined, Undefined, "/login")
Children == View("children", Undefined, Undefined, Undefined, Undefined)
Fallback(fallback) == View("fallback", Undefined, Undefined, Undefined, fallback)
\* the generic Access Denied view with the two role names it prints
Denied(current, required) ==
    View("denied", Undefined, current, required, Undefined)

\* ProtectedRoute with the authentication test made before the loading test
ProtectedRoute_AuthFirst(requiredRole, requireAuth, fallback, location) ==
    IF requireAuth /\ ~isAuthenticated THEN Redirect(location)
    ELSE IF isLoading THEN LoadingView
    ELSE IF requiredRole # Undefined /\ RoleOf # requiredRole
    THEN IF RoleOf = "admin" THEN Children
         ELSE IF fallback # Undefined THEN Fallback(fallback)
         ELSE Denied(IF RoleOf = Undefined THEN "Unknown" ELSE RoleOf,
                     requiredRole)
    ELSE Children

\* ProtectedRoute with only the profile tested for authentication
ProtectedRoute_ProfileOnly(requiredRole, requireAuth, fallback, location) ==
    IF isLoading THEN LoadingView
    ELSE IF requireAuth /\ profile = NoProfile THEN Redirect(location)
    ELSE IF requiredRole # Undefined /\ RoleOf # requiredRole
    THEN IF RoleOf = "admin" THEN Children
         ELSE IF fallback # Undefined THEN Fallback(fallback)
         ELSE Denied(IF RoleOf = Undefined THEN "Unknown" ELSE RoleOf,
                     requiredRole)
    ELSE Children

\* ProtectedRoute without the admin bypass
ProtectedRoute_NoAdminBypass(requiredRole, requireAuth, fallback, location) ==
    IF isLoading THEN LoadingView
    ELSE IF requireAuth /\ ~isAuthenticated THEN Redirect(location)
    ELSE IF requiredRole # Undefined /\ RoleOf # requiredRole
    THEN IF fallback # Undefined THEN Fallback(fallback)
         ELSE Denied(IF RoleOf = Undefined THEN "Unknown" ELSE RoleOf,
                     requiredRole)
    ELSE Children

ProtectedRoute(requiredRole, requireAuth, fallback, location) ==
    IF isLoading THEN LoadingView
    ELSE IF requireAuth /\ ~isAuthenticated THEN Redirect(location)
    ELSE IF requiredRole # Undefined /\ RoleOf # requiredRole
    THEN IF RoleOf = "admin" THEN Children
         ELSE IF fallback # Undefined THEN Fallback(fallback)
         ELSE Denied(IF RoleOf = Undefined THEN "Unknown" ELSE RoleOf,
                     requiredRole)
    ELSE Children

\* AdminRoute with the requiredRole prop left out
AdminRoute_NoRole(location) == ProtectedRoute(Undefined, TRUE, Undefined, location)

AdminRoute(location) == ProtectedRoute("admin", TRUE, Undefined, location)

ModeratorMessage == "This page requires moderator or admin privileges."
EditorMessage == "This page requires editor, moderator, or admin privileges."

\* ModeratorRoute with editor in its allow-list
ModeratorRoute_AllowsEditor(location) ==
    IF RoleOf \in {"admin", "moderator", "editor"} THEN Children
    ELSE ProtectedRoute("moderator", TRUE, ModeratorMessage, location)

ModeratorRoute(location) ==
    IF RoleOf = "admin" \/ RoleOf = "moderator" THEN Children
    ELSE ProtectedRoute("moderator", TRUE, ModeratorMessage, location)

\* EditorRoute with user in its allow-list
EditorRoute_AllowsUser(location) ==
    IF RoleOf \in {"admin", "moderator", "editor", "user"} THEN Children
    ELSE ProtectedRoute("editor", TRUE, EditorMessage, location)

\* EditorRoute as the exact-role guard alone
EditorRoute_ExactRole(location) ==
    ProtectedRoute("editor", TRUE, EditorMessage, location)

EditorRoute(location) ==
    IF RoleOf \in {"admin", "moderator", "editor"} THEN Children
    ELSE ProtectedRoute("editor", TRUE, EditorMessage, location)

\* the guarded routes of App and the guard each is wrapped in
AdminPaths == {"/admin/users", "/admin/roles", "/admin/user-roles",
               "/admin/role-audit"}
EditorPaths == {"/admin/posts", "/admin/post-images"}
ModeratorPaths == {"/admin/categories", "/admin/tags", "/admin/comments",
                   "/admin/comment-likes", "/admin/analytics"}
ProtectedPaths == {"/profile", "/settings", "/admin", "/admin/likes",
                   "/admin/bookmarks", "/admin/followers",
                   "/admin/notifications"}
Paths == AdminPaths \cup EditorPaths \cup ModeratorPaths \cup ProtectedPaths

RouteGuard(path) ==
    CASE path \in AdminPaths -> "AdminRoute"
      [] path \in EditorPaths -> "EditorRoute"
      [] path \in ModeratorPaths -> "ModeratorRoute"
      [] OTHER -> "ProtectedRoute"

\* the routes nested under /admin render inside the layout route's own
\* <ProtectedRoute>, which shows them only when it returns its children
TopLevelPaths == {"/profile", "/settings", "/admin"}

InnerView(path) ==
    CASE path \in AdminPaths -> AdminRoute(path)
      [] path \in EditorPaths -> EditorRoute(path)
      [] path \in ModeratorPaths -> ModeratorRoute(path)
      [] OTHER -> ProtectedRoute(Undefined, TRUE, Undefined, path)

\* RouteView with the nested routes rendered outside the layout's guard
RouteView_NoLayout(path) == InnerView(path)

RouteView(path) ==
    LET layout == ProtectedRoute(Undefined, TRUE, Undefined, path)
    IN  IF path \in TopLevelPaths \/ layout = Children
        THEN InnerView(path)
        ELSE layout

\* the profiles a guard may meet: every role and both flags (refreshProfile
\* can store a blocked or inactive row)
GuardProfiles ==
    {UserProfile(id, r, a, b, NullPermissions) :
        id \in Ids, r \in Roles, a \in BOOLEAN, b \in BOOLEAN}

\* the values user, profile and isLoading may hold when a guard renders:
\* any identity with any profile, and no profile while loading is true
InitGuard ==
    /\ user \in Ids \cup {NoUser}
    /\ profile \in GuardProfiles \cup {NoProfile}
    /\ isLoading \in BOOLEAN
    /\ isLoading => profile = NoProfile
    /\ initPc = [pc |-> "done", uid |-> NoUser]
    /\ handlers = <<>>
    /\ latest = FALSE
    /\ refreshPc = Idle
    /\ signOuts = 0
    /\ asked = NoAnswer
    /\ view = NoView
    /\ failures = <<>>
    /\ login = NoLogin

\* a consumer renders <ProtectedRoute> with these props at location
RenderProtectedRoute(requiredRole, requireAuth, fallback, location) ==
    /\ view' = [guard |-> "ProtectedRoute", requiredRole |-> requiredRole,
                requireAuth |-> requireAuth, fallback |-> fallback,
                location |-> location,
                result |-> ProtectedRoute(requiredRole, requireAuth, fallback,
                                          location)]
    /\ UNCHANGED <<user, profile, isLoading, initPc, handlers, latest,
                   refreshPc, signOuts, asked, failures, login>>

\* the router renders the element of a guarded route of App
RenderRoute(path) ==
    /\ view' = [guard |-> RouteGuard(path), requiredRole |-> Undefined,
                requireAuth |-> TRUE, fallback |-> Undefined,
                location |-> path, result |-> RouteView(path)]
    /\ UNCHANGED <<user, profile, isLoading, initPc, handlers, latest,
                   refreshPc, signOuts, asked, failures, login>>

\* the props and locations a consumer's own <ProtectedRoute> is rendered with
Fallbacks == {Undefined, "custom"}
Locations == {"/profile", "/admin"}

NextGuard ==
    \/ \E requiredRole \in Roles \cup {Undefined} : \E requireAuth \in BOOLEAN :
       \E fallback \in Fallbacks : \E location \in Locations :
          RenderProtectedRoute(requiredRole, requireAuth, fallback, location)
    \/ \E path \in Paths : RenderRoute(path)

SpecGuard == InitGuard /\ [][NextGuard]_vars

----------------------------------------------------------------------------
(* Where a failing collaborator call ends *)

Procedures == {"getInitialSession", "onAuthStateChange", "signOut",
               "refreshProfile"}

\* the collaborator calls each procedure awaits
Awaits(procedure) ==
    CASE procedure = "getInitialSession" ->
            {"getSession", "fetchUserProfile", "signOut"}
      [] procedure = "onAuthStateChange" -> {"fetchUserProfile", "signOut"}
      [] procedure = "signOut" -> {"signOut"}
      [] OTHER -> {"fetchUserProfile"}

\* a call fails by returning an error object or by throwing
Failures == {"error", "throw"}

\* the procedures whose awaits sit inside a try with a catch
HasTryCatch(procedure) == procedure \in {"getInitialSession", "signOut"}

\* where the failure of call, awaited by procedure, ends: in AuthState (a
\* state transition), in a toast (a notice), or outside the procedure
Disposition(procedure, call, how) ==
    CASE call = "fetchUserProfile" -> "state"
      [] call # "fetchUserProfile" /\ how = "throw" ->
            IF ~HasTryCatch(procedure) THEN "uncaught"
            ELSE IF procedure = "signOut" THEN "notice"
            ELSE "state"
      [] OTHER ->
            IF call = "signOut" /\ procedure # "signOut" THEN "notice"
            ELSE "state"

\* the call awaited by procedure fails
CollaboratorFails(procedure, call, how) ==
    /\ Len(failures) < MaxFailures
    /\ call \in Awaits(procedure)
    /\ failures' = Append(failures,
                          [procedure |-> procedure, call |-> call, how |-> how,
                           disposition |-> Disposition(procedure, call, how)])
    /\ UNCHANGED <<user, profile, isLoading, initPc, handlers, latest,
                   refreshPc, signOuts, asked, view, login>>

InitFail == Init

NextFail ==
    \E procedure \in Procedures :
       \E call \in {"getSession", "fetchUserProfile", "signOut"} :
          \E how \in Failures : CollaboratorFails(procedure, call, how)

SpecFail == InitFail /\ [][NextFail]_vars

----------------------------------------------------------------------------
(* LoginPage.handleLogin() *)

\* the messages handleLogin() shows
EnterBoth == "Please enter both email and password"
AuthenticationFailed == "Authentication failed"
ProfileNotFound == "User profile not found"
AccountBlocked == "Your account has been blocked. Please contact administrator."
AccountNotActive == "Your account is not active. Please contact administrator."
InvalidRole == "Invalid user role. Please contact administrator."
Unexpected == "An unexpected error occurred. Please try again."

\* authError.message of a credential rejection
AuthMessages == {"Invalid login credentials", "Email not confirmed"}

\* how the awaited signInWithPassword() may end
SignInResults ==
    {[kind |-> "rejected", message |-> m, uid |-> NoUser] : m \in AuthMessages}
    \cup {[kind |-> "noUser", message |-> "null", uid |-> NoUser]}
    \cup {[kind |-> "ok", message |-> "null", uid |-> u] : u \in Ids}
    \cup {[kind |-> "throw", message |-> "null", uid |-> NoUser]}

\* the rows the profile query of the login flow may return: role is a text
\* column, so a row may carry a role outside the four the switch names
LoginRoles == Roles \cup {"guest"}
LoginRows(userId) ==
    {UserProfile(userId, r, a, b, NullPermissions) :
        r \in LoginRoles, a \in BOOLEAN, b \in BOOLEAN}

\* how the awaited profile query may end
ProfileResults ==
    {[kind |-> "error", row |-> NoRow], [kind |-> "throw", row |-> NoRow]}
    \cup {[kind |-> "row", row |-> r] : r \in UNION {LoginRows(u) : u \in Ids}}

\* handleLogin() leaves everything of AuthProvider alone: LoginPage does not
\* read the context
Provider == <<user, profile, isLoading, initPc, handlers, latest, refreshPc,
              signOuts, asked, view, failures>>

\* the form is submitted: setError(null), then the input is validated
HandleLogin(filled) ==
    /\ login.pc = "idle"
    /\ login' = IF filled
                THEN [NoLogin EXCEPT !.pc = "signIn"]
                ELSE [NoLogin EXCEPT !.error = EnterBoth]
    /\ UNCHANGED Provider

\* SignInResolve with authError ignored
SignInResolve_IgnoresRejection(result) ==
    /\ login.pc = "signIn"
    /\ result \in SignInResults
    /\ login' =
         CASE result.kind = "rejected" ->
                 [login EXCEPT !.pc = "profile", !.uid = "A",
                               !.authenticated = TRUE, !.fetched = TRUE]
           [] result.kind = "noUser" ->
                 [login EXCEPT !.pc = "idle", !.error = AuthenticationFailed]
           [] result.kind = "throw" ->
                 [login EXCEPT !.pc = "idle", !.error = Unexpected]
           [] OTHER ->
                 [login EXCEPT !.pc = "profile", !.uid = result.uid,
                               !.authenticated = TRUE, !.fetched = TRUE]
    /\ UNCHANGED Provider

\* the awaited signInWithPassword() ends
SignInResolve(result) ==
    /\ login.pc = "signIn"
    /\ result \in SignInResults
    /\ login' =
         CASE result.kind = "rejected" ->
                 [login EXCEPT !.pc = "idle", !.error = result.message]
           [] result.kind = "noUser" ->
                 [login EXCEPT !.pc = "idle", !.error = AuthenticationFailed]
           [] result.kind = "throw" ->
                 [login EXCEPT !.pc = "idle", !.error = Unexpected]
           [] OTHER ->
                 [login EXCEPT !.pc = "profile", !.uid = result.uid,
                               !.authenticated = TRUE, !.fetched = TRUE]
    /\ UNCHANGED Provider

\* the awaited profile query ends: lookup error, blocked and inactive rows
\* each show a message and await the remote sign-out
ProfileResolve(result) ==
    /\ login.pc = "profile"
    /\ result \in ProfileResults
    /\ result.kind = "row" => result.row.id = login.uid
    /\ login' =
         CASE result.kind = "throw" ->
                 [login EXCEPT !.pc = "idle", !.error = Unexpected]
           [] result.kind = "error" ->
                 [login EXCEPT !.pc = "signOut", !.error = ProfileNotFound,
                               !.failed = "lookup", !.signedOut = TRUE]
           [] result.kind = "row" /\ result.row.blocked ->
                 [login EXCEPT !.pc = "signOut", !.error = AccountBlocked,
                               !.row = result.row, !.failed = "blocked",
                               !.signedOut = TRUE]
           [] result.kind = "row" /\ ~result.row.blocked
                                  /\ result.row.is_active = FALSE ->
                 [login EXCEPT !.pc = "signOut", !.error = AccountNotActive,
                               !.row = result.row, !.failed = "inactive",
                               !.signedOut = TRUE]
           [] OTHER ->
                 [login EXCEPT !.pc = "update", !.row = result.row]
    /\ UNCHANGED Provider

\* UpdateResolve with the default branch of the switch navigating to /
UpdateResolve_DefaultNavigates ==
    /\ login.pc = "update"
    /\ login' =
         IF login.row.role \in {"admin", "moderator", "editor"}
         THEN [login EXCEPT !.pc = "idle", !.navigated = "/admin"]
         ELSE [login EXCEPT !.pc = "idle", !.navigated = "/"]
    /\ UNCHANGED Provider

\* the awaited updateUserLoginInfo() ends (it catches its own failures):
\* the welcome toast, then the switch on the role
UpdateResolve ==
    /\ login.pc = "update"
    /\ login' =
         IF login.row.role \in {"admin", "moderator", "editor"}
         THEN [login EXCEPT !.pc = "idle", !.navigated = "/admin"]
         ELSE IF login.row.role = "user"
         THEN [login EXCEPT !.pc = "idle", !.navigated = "/"]
         ELSE [login EXCEPT !.pc = "signOut", !.error = InvalidRole,
                            !.failed = "role", !.signedOut = TRUE]
    /\ UNCHANGED Provider

\* the awaited remote sign-out of the login flow ends: a returned result
\* reaches return, a throw reaches the catch and its message
LoginSignOutResolve(outcome) ==
    /\ login.pc = "signOut"
    /\ outcome \in SignOutOutcomes
    /\ login' = IF outcome = "throw"
                THEN [login EXCEPT !.pc = "idle", !.error = Unexpected]
                ELSE [login EXCEPT !.pc = "idle"]
    /\ UNCHANGED Provider

\* LoginPage is mounted with AuthState settled and nobody signed in
InitLogin ==
    /\ user = NoUser
    /\ profile = NoProfile
    /\ isLoading = FALSE
    /\ initPc = [pc |-> "done", uid |-> NoUser]
    /\ handlers = <<>>
    /\ latest = FALSE
    /\ refreshPc = Idle
    /\ signOuts = 0
    /\ asked = NoAnswer
    /\ view = NoView
    /\ failures = <<>>
    /\ login = NoLogin

NextLogin ==
    \/ \E filled \in BOOLEAN : HandleLogin(filled)
    \/ \E result \in SignInResults : SignInResolve(result)
    \/ \E result \in ProfileResults : ProfileResolve(result)
    \/ UpdateResolve
    \/ \E outcome \in SignOutOutcomes : LoginSignOutResolve(outcome)

SpecLogin == InitLogin /\ [][NextLogin]_vars

----------------------------------------------------------------------------
(* Steps the claims speak of *)

\* an auth-event callback returns in this step
HandlerReturns ==
    \/ OnAuthStateChange(NoUser)
    \/ \E i \in 1..Len(handlers) : \E p \in FetchResults :
          HandlerFetchResolve(i, p) /\ Len(handlers') < Len(handlers)
    \/ \E i \in 1..Len(handlers) : \E o \in SignOutOutcomes :
          HandlerSignOutResolve(i, o)

\* an auth-event callback runs a segment after which it is still suspended
HandlerSuspends ==
    \/ \E s \in Ids : OnAuthStateChange(s)
    \/ \E i \in 1..Len(handlers) : \E p \in FetchResults :
          HandlerFetchResolve(i, p) /\ Len(handlers') = Len(handlers)

\* getInitialSession() returns in this step
InitReturns ==
    \/ InitSessionError
    \/ InitNoSession
    \/ \E p \in FetchResults : InitFetchResolve(p) /\ initPc'.pc = "done"
    \/ \E o \in SignOutOutcomes : InitSignOutResolve(o)

\* a profile fetch of the session probe or of an auth event, issued for the
\* identity now in user, is still in flight
FetchInFlightForUser ==
    \/ initPc.pc = "fetch" /\ initPc.uid = user
    \/ \E i \in 1..Len(handlers) :
          handlers[i].pc = "fetch" /\ handlers[i].uid = user

----------------------------------------------------------------------------
(* Claims *)

\* C1: in every reachable state the stored profile is never one with
\* blocked = true or is_active = false, so isAuthenticated is never true for
\* a blocked or inactive profile.
C1_NoBlockedProfileStored ==
    profile # NoProfile => ~NotActiveOrBlocked(profile)

\* C2: a profile fetch issued by an auth event that a newer event for
\* another identity (or a logout) has superseded never overwrites profile
\* when it resolves, so the final state holds the profile of the last event.
C2_StaleFetchNeverOverwrites ==
    [][\A i \in 1..Len(handlers) : \A p \in FetchResults :
          (~IsNewest(i) /\ handlers[i].uid # user /\ HandlerFetchResolve(i, p))
             => profile' = profile]_vars

\* C3: when the profile fetch of an auth event or of the session probe
\* fails or finds no record, then after that step isAuthenticated is false
\* and hasPermission is false for every name, whatever was stored before.
C3_FailedFetchMeansNoProfile ==
    [][((\E i \in 1..Len(handlers) : HandlerFetchResolve(i, NoProfile))
          \/ InitFetchResolve(NoProfile))
        => (~isAuthenticated'
            /\ \A c \in Capabilities : ~hasPermission(profile', c))]_vars

\* C4: no reachable state holds a new identity together with the profile of
\* a different, earlier identity.
C4_NoNewIdentityWithStaleProfile ==
    (user # NoUser /\ profile # NoProfile) => profile.id = user

\* C5: when an auth event resolves to a blocked or inactive profile, the
\* callback ends with identity and profile both cleared (isAuthenticated
\* false), whatever was stored before the event.
C5_ForcedSignOutClearsLocalState ==
    [][(\E i \in 1..Len(handlers) : \E o \in SignOutOutcomes :
            HandlerSignOutResolve(i, o))
        => (user' = NoUser /\ profile' = NoProfile /\ ~isAuthenticated')]_vars

\* C6: every auth-event callback ends with loading false, on every path,
\* and clears it in no segment before its last.
C6_EveryEventEndsLoading ==
    [][(HandlerReturns => ~isLoading')
        /\ (HandlerSuspends => isLoading' = isLoading)]_vars

C8_NoSettledLoadingWithFetchInFlight ==
    (~isLoading /\ user # NoUser /\ (profile = NoProfile \/ profile.id # user))
       => ~FetchInFlightForUser

\* C9: for a profile with role admin, hasPermission(x) is true for every
\* name x, whatever the permissions mapping holds and whether or not x is in
\* the static table.
C9_AdminHasEveryCapability ==
    (asked # NoAnswer /\ profile # NoProfile /\ profile.role = "admin")
       => asked.result = TRUE

\* C9 witness: an admin whose mapping denies the name asked for, a name
\* that no role of the static table is given, was answered.
C9_Witness ==
    /\ asked # NoAnswer
    /\ profile # NoProfile
    /\ profile.role = "admin"
    /\ ~profile.permissions.isNull
    /\ asked.permission = "delete_users"
    /\ profile.permissions.entries[asked.permission] = "false"
    /\ asked.result = TRUE

\* C10: for a non-admin profile whose permissions mapping is absent, or
\* present without the name, hasPermission(name) is true iff the name is in
\* the static set of the profile's role.
C10_FallsThroughToRoleTable ==
    (/\ asked # NoAnswer
     /\ profile # NoProfile
     /\ profile.role # "admin"
     /\ (profile.permissions.isNull
         \/ profile.permissions.entries[asked.permission] = "undefined"))
       => (asked.result = (asked.permission \in rolePermissions(profile.role)))

\* C11: for a non-admin profile whose permissions mapping holds a boolean
\* for the name, hasPermission(name) is exactly that boolean, whatever the
\* static table says of the role.
C11_ExplicitOverrideWins ==
    (/\ asked # NoAnswer
     /\ profile # NoProfile
     /\ profile.role # "admin"
     /\ ~profile.permissions.isNull
     /\ profile.permissions.entries[asked.permission] \in {"true", "false"})
       => (asked.result = (profile.permissions.entries[asked.permission] = "true"))

\* C11 witness: a moderator whose mapping denies manage_comments, a name of
\* the moderator's static set, was answered false.
C11_Witness ==
    /\ asked = [permission |-> "manage_comments", result |-> FALSE]
    /\ profile # NoProfile
    /\ profile.role = "moderator"
    /\ ~profile.permissions.isNull
    /\ profile.permissions.entries["manage_comments"] = "false"

\* C12: in every reachable state with no profile stored, hasPermission is
\* false for every name.
C12_NoProfileNoCapability ==
    profile = NoProfile => \A c \in Capabilities : hasPermission(profile, c) = FALSE

\* C12 witness: loading has settled with an identity present and no profile
\* (a failed lookup, or a sign-out followed by a new event).
C12_Witness ==
    /\ profile = NoProfile
    /\ user # NoUser
    /\ ~isLoading
    /\ initPc.pc = "done"
    /\ handlers = <<>>

\* what a guard's answer amounts to for the visitor
Granted(v) == v.kind = "children"
Refused(v) == v.kind \in {"denied", "fallback"}

\* C13: while loading is true ProtectedRoute returns the loading view and
\* nothing else, whatever requiredRole, requireAuth and fallback are.
C13_LoadingShowsOnlyLoading ==
    (view.guard = "ProtectedRoute" /\ isLoading) => view.result = LoadingView
C13_Witness ==
    /\ view.guard = "ProtectedRoute" /\ isLoading /\ user # NoUser
    /\ view.requiredRole = "admin" /\ view.requireAuth /\ view.fallback = "custom"
    /\ view.result.kind = "loading"

\* C14: loading false, requireAuth true and identity null or profile null:
\* ProtectedRoute returns the redirect to /login carrying the requested
\* location, never the protected view or a denied view.
C14_UnauthenticatedRedirectsToLogin ==
    (/\ view.guard = "ProtectedRoute" /\ ~isLoading /\ view.requireAuth
     /\ (user = NoUser \/ profile = NoProfile))
       => /\ view.result = Redirect(view.location)
          /\ view.result.content = "/login"
          /\ view.result.from = view.location
C14_Witness ==
    /\ view.guard = "ProtectedRoute" /\ ~isLoading /\ view.requireAuth
    /\ user = NoUser /\ profile # NoProfile /\ view.requiredRole = Undefined
    /\ view.location = "/admin" /\ view.result.kind = "redirect"

\* C15: loading false and authenticated: with a requiredRole ProtectedRoute
\* returns the protected view iff the role equals requiredRole or is admin;
\* otherwise the caller's fallback if supplied, else the generic denied view
\* naming the current and the required role. With no requiredRole every
\* authenticated profile gets the protected view.
C15_RoleDecision ==
    (view.guard = "ProtectedRoute" /\ ~isLoading /\ isAuthenticated)
       => IF view.requiredRole = Undefined
               \/ profile.role = view.requiredRole \/ profile.role = "admin"
          THEN view.result = Children
          ELSE IF view.fallback # Undefined
          THEN view.result = Fallback(view.fallback)
          ELSE view.result = Denied(profile.role, view.requiredRole)
C15_Witness ==
    /\ view.guard = "ProtectedRoute" /\ ~isLoading /\ isAuthenticated
    /\ profile.role = "editor" /\ view.requiredRole = "admin"
    /\ view.fallback = Undefined
    /\ view.result.kind = "denied" /\ view.result.current = "editor"
    /\ view.result.required = "admin"

\* C16: on the users, roles, user-roles and role-audit routes AdminRoute
\* returns the protected view only when the role is admin; a settled state
\* with role user, editor or moderator, or with no profile, gets a denied
\* view or the login redirect.
C16_AdminRouteOnlyAdmin ==
    (view.guard = "AdminRoute" /\ view.location \in AdminPaths)
       => /\ Granted(view.result) => (profile # NoProfile /\ profile.role = "admin")
          /\ (~isLoading /\ RoleOf # "admin")
                => (Refused(view.result) \/ view.result.kind = "redirect")
C16_Witness ==
    /\ view.guard = "AdminRoute" /\ view.location = "/admin/role-audit"
    /\ ~isLoading /\ isAuthenticated /\ profile.role = "moderator"
    /\ view.result.kind = "denied"

\* C17: ModeratorRoute grants exactly the allow-list {admin, moderator}: an
\* authenticated admin or moderator gets the protected view, an authenticated
\* editor or user gets the moderator-specific fallback message.
C17_ModeratorRouteAllowList ==
    (view.guard = "ModeratorRoute" /\ ~isLoading /\ isAuthenticated)
       => IF profile.role \in {"admin", "moderator"}
          THEN view.result = Children
          ELSE view.result = Fallback(ModeratorMessage)
C17_Witness ==
    /\ view.guard = "ModeratorRoute" /\ ~isLoading /\ isAuthenticated
    /\ profile.role = "editor" /\ view.result.kind = "fallback"
    /\ view.result.content = ModeratorMessage

\* C18: EditorRoute grants exactly the allow-list {admin, moderator, editor}:
\* an authenticated profile with one of these roles gets the protected view,
\* one with role user gets the editor-specific fallback message.
C18_EditorRouteAllowList ==
    (view.guard = "EditorRoute" /\ ~isLoading /\ isAuthenticated)
       => IF profile.role \in {"admin", "moderator", "editor"}
          THEN view.result = Children
          ELSE view.result = Fallback(EditorMessage)
C18_Witness ==
    /\ view.guard = "EditorRoute" /\ ~isLoading /\ isAuthenticated
    /\ profile.role = "user" /\ view.result.kind = "fallback"
    /\ view.result.content = EditorMessage

\* C19: exact-role and allow-list guarding differ: for an authenticated
\* moderator EditorRoute returns the protected view while
\* ProtectedRoute(requiredRole = editor) returns a denied view; for admin,
\* editor and user the two guards give the same outcome.
C19_ExactRoleDiffersFromAllowList ==
    (view.guard = "EditorRoute" /\ ~isLoading /\ isAuthenticated)
       => \A fallback \in {Undefined, EditorMessage} :
             IF profile.role = "moderator"
             THEN /\ Granted(view.result)
                  /\ Refused(ProtectedRoute("editor", TRUE, fallback,
                                            view.location))
             ELSE /\ Granted(view.result)
                     = Granted(ProtectedRoute("editor", TRUE, fallback,
                                              view.location))
                  /\ Refused(view.result)
                     = Refused(ProtectedRoute("editor", TRUE, fallback,
                                              view.location))
C19_Witness ==
    /\ view.guard = "EditorRoute" /\ ~isLoading /\ isAuthenticated
    /\ profile.role = "moderator" /\ view.result.kind = "children"
    /\ ProtectedRoute("editor", TRUE, Undefined, view.location).kind = "denied"

\* C20: after signOut() returns, identity and profile are both null whether
\* the remote call succeeded, returned an error, or threw.
C20_SignOutAlwaysClears ==
    [][(\E outcome \in SignOutOutcomes : SignOutResolve(outcome))
          => (user' = NoUser /\ profile' = NoProfile)]_vars

\* C21: signOut() is idempotent: when it ends with AuthState already signed
\* out, whatever the remote call did, the call returns and AuthState is
\* still identity = null, profile = null, with loading untouched.
C21_SignOutIdempotent ==
    [][\A outcome \in SignOutOutcomes :
          (SignOutResolve(outcome) /\ user = NoUser /\ profile = NoProfile)
             => /\ user' = NoUser /\ profile' = NoProfile
                /\ isLoading' = isLoading
                /\ signOuts' = signOuts - 1]_vars
C21_Witness ==
    /\ signOuts = 1 /\ user = NoUser /\ profile = NoProfile
    /\ ~isLoading /\ initPc.pc = "done" /\ handlers = <<>>

\* C22: refreshProfile() is a no-op when no identity is present at the time
\* it runs: it issues no fetch and leaves identity, profile and loading
\* unchanged, also when it was scheduled while signed in and the user
\* signed out before it ran.
C22_RefreshWithoutIdentityIsNoOp ==
    [][(RefreshProfile /\ user = NoUser)
          => /\ refreshPc' = Idle
             /\ UNCHANGED <<user, profile, isLoading>>]_vars

\* C23: no failure of a collaborator call escapes the Session Manager: in
\* getInitialSession, the auth-event callback (its forced sign-out
\* included), signOut and refreshProfile a failing call is caught and ends
\* in a state transition or a notice.
C23_NoUncaughtFailure ==
    \A i \in 1..Len(failures) : failures[i].disposition # "uncaught"

\* C24: when getInitialSession() finds no session, or getSession() returns
\* an error, it settles AuthState to identity = null, profile = null,
\* loading = false and issues no profile fetch.
C24_NoSessionSettlesSignedOut ==
    [][(InitNoSession \/ InitSessionError)
          => /\ user' = NoUser /\ profile' = NoProfile
             /\ isLoading' = FALSE
             /\ initPc'.pc = "done"]_vars

\* C25: a credential rejection at sign-in shows authError.message and does
\* not touch AuthState: identity and profile stay null, the login flow
\* issues no profile fetch and no remote sign-out, and nothing navigates.
C25_RejectionLeavesAuthStateAlone ==
    [][\A result \in SignInResults :
          (result.kind = "rejected" /\ SignInResolve(result))
             => /\ login'.error = result.message
                /\ login'.pc = "idle"
                /\ ~login'.authenticated /\ ~login'.fetched
                /\ ~login'.signedOut /\ login'.navigated = "none"
                /\ user' = NoUser /\ profile' = NoProfile
                /\ UNCHANGED <<user, profile, isLoading, handlers>>]_vars
C25_Witness ==
    /\ login.pc = "idle" /\ login.error = "Invalid login credentials"
    /\ ~login.fetched /\ login.navigated = "none"
    /\ user = NoUser /\ profile = NoProfile

\* C26: isAuthenticated equals (identity # null and profile # null), and
\* isAdmin, isModerator, isEditor are exact role equalities: at most one of
\* them is true, and an admin has isModerator = false and isEditor = false.
C26_DerivedBooleans ==
    /\ isAuthenticated = (user # NoUser /\ profile # NoProfile)
    /\ isAdmin = (RoleOf = "admin")
    /\ isModerator = (RoleOf = "moderator")
    /\ isEditor = (RoleOf = "editor")
    /\ Cardinality({b \in {"isAdmin", "isModerator", "isEditor"} :
                      \/ b = "isAdmin" /\ isAdmin
                      \/ b = "isModerator" /\ isModerator
                      \/ b = "isEditor" /\ isEditor}) <= 1
    /\ isAdmin => (~isModerator /\ ~isEditor)
C26_Witness ==
    /\ isAuthenticated /\ isAdmin /\ ~isModerator /\ ~isEditor
    /\ view.guard = "ProtectedRoute" /\ view.requiredRole = "moderator"
    /\ view.result.kind = "children"

\* C27: a non-null profile implies a non-null identity whose id equals
\* profile.id, in every reachable state.
C27_ProfileBelongsToIdentity ==
    profile # NoProfile => (user # NoUser /\ user = profile.id)

C29_LoadingEventuallyFalse == <>(isLoading = FALSE)
C29_Witness ==
    /\ ~isLoading /\ initPc.pc = "done" /\ user # NoUser
    /\ profile = NoProfile /\ handlers = <<>> /\ signOuts = 0

\* C30: in the login flow every path that authenticates and then fails a
\* profile check (lookup error, blocked, inactive, role outside the four)
\* calls the remote sign-out and navigates nowhere; navigation happens only
\* for an active, non-blocked profile, to /admin for admin, moderator and
\* editor and to / for user.
C30_FailedCheckSignsOutNoNavigation ==
    /\ login.failed # "none"
          => (login.authenticated /\ login.signedOut /\ login.navigated = "none")
    /\ (/\ login.row # NoRow /\ login.pc \in {"idle", "signOut"}
        /\ \/ login.row.blocked \/ login.row.is_active = FALSE
           \/ login.row.role \notin Roles)
          => (login.failed # "none" /\ login.signedOut
              /\ login.navigated = "none")
    /\ login.navigated # "none"
          => /\ login.row # NoRow /\ login.row.is_active /\ ~login.row.blocked
             /\ ~login.signedOut
             /\ login.navigated =
                  IF login.row.role \in {"admin", "moderator", "editor"}
                  THEN "/admin" ELSE "/"
             /\ login.navigated = "/" => login.row.role = "user"
C30_Witness ==
    /\ login.pc = "idle" /\ login.authenticated /\ login.failed = "role"
    /\ login.row.role = "guest" /\ login.signedOut /\ login.navigated = "none"
    /\ login.error = InvalidRole

============================================================================
